---- MODULE Spec2Model ----
(***************************************************************************)
(* Model of bionic_reader: the chunk render/merge orchestrator             *)
(* (renderer.py), the word emphasis engine (processor.py), the image       *)
(* normalization pipeline (image_handler.py) and the block assembler and   *)
(* partitioner (converter.py).                                             *)
(***************************************************************************)
EXTENDS Integers, Sequences, FiniteSets, TLC

\* ------------------------------------------------------------------ bounds
MaxLen == 5         \* characters in a text node
RatioDen == 4       \* bold_ratio ranges over 1/RatioDen .. RatioDen/RatioDen
MaxImages == 2      \* image relationships of the document
MaxElems == 2       \* body elements of a document with images
MaxBlocks == 201    \* body elements of an image-free document
MaxChunks == 3      \* chunks handed to render_pdf
MaxPages == 2       \* pages the renderer may produce for one chunk
NumWorkers == 2     \* multiprocessing.cpu_count()

\* ------------------------------------------------------------- render_pdf
VARIABLES
    html_chunks,   \* number of chunks in the list passed to render_pdf
    pc,            \* position of render_pdf
    pool,          \* "none" | "open" | "closed" | "joined"
    task,          \* per chunk: "queued" | "mkstemp" | "write" | "done"
    result,        \* per chunk: value returned by render_chunk (Pending until then)
    finished,      \* chunk indices in the order their render_chunk calls returned
    temp_pdfs,     \* the list pool.map returned
    exists,        \* temp paths that exist on disk
    content,       \* per temp path: the pages written into it
    doc,           \* the in-memory merged document (pages)
    mi,            \* index of the merge loop
    dest,          \* the file at output_path
    outcome        \* "none" | "ok" | "raised"

rvars == <<html_chunks, pc, pool, task, result, finished, temp_pdfs, exists,
           content, doc, mi, dest, outcome>>

\* ------------------------------------------------------ Word Emphasis Engine
VARIABLES
    text,          \* the text of the node (a sequence of characters)
    bold_ratio,    \* the ratio is bold_ratio / RatioDen
    epc,           \* "input" | "node" | "word"
    new_html,      \* value returned by process_text_node
    wrapped,       \* value returned by wrap_word
    run,           \* the run holding the text: its bold and italic flags
    p_div,         \* children appended to the paragraph's div
    html_content,  \* markup passed to apply_bionic_reading
    soup           \* markup returned by apply_bionic_reading

evars == <<text, bold_ratio, epc, new_html, wrapped, run, p_div, html_content, soup>>

\* -------------------------------------------------------------- pdf_to_html
VARIABLES
    cpc,           \* position of pdf_to_html
    blobs,         \* the image relationships of the document, in rels order
    body,          \* doc.element.body
    future,        \* per submitted task: "pending" | "done"
    fresult,       \* per submitted task: the (rid, data_url) the worker returned
    fi,            \* index of the loop over futures
    results,       \* the dict extract_images_from_doc fills
    images_dict,   \* the dict extract_images_from_doc returned
    ei,            \* index of the loop over doc.element.body
    body_content,  \* the blocks built so far
    ci,            \* index of the chunking loop over body_content
    current_chunk_elements,  \* the chunk being filled
    chunks,        \* the chunks pdf_to_html returns
    error          \* what made pdf_to_html raise: "none" | "pdf2docx" | "image" | "block"

cvars == <<cpc, blobs, body, future, fresult, fi, results, images_dict, ei,
           body_content, ci, current_chunk_elements, chunks, error>>

\* --------------------------------------------------------------------- main
VARIABLES
    mpc,            \* position of main
    input_exists,   \* os.path.exists(input_path)
    exit_status,    \* the exit status of the process, -1 while it runs
    success_logged  \* the "Success! Output saved to" message was logged

mvars == <<mpc, input_exists, exit_status, success_logged>>

vars == <<rvars, evars, cvars, mvars>>

NotRender == <<evars, cvars, mvars>>

NotEmphasis == <<rvars, cvars, mvars>>

NotConvert == <<rvars, evars, mvars>>

\* render_chunk returns the temp path or None; the temp path of chunk i is i
None == 0
Pending == -1

Chunks == 1..html_chunks

Page(i, p) == [chunk |-> i, page |-> p]

RenderedPages(i, np) == [p \in 1..np |-> Page(i, p)]

Running == {i \in Chunks : task[i] \in {"mkstemp", "write"}}

\* pool.map blocks until every task is done
SomeDone == \E i \in Chunks : task[i] = "done"

AllDone == \A i \in Chunks : task[i] = "done"

\* pool.map returns the results in the order of its input list
pool_map_unordered(res, fin) == [i \in 1..Len(fin) |-> res[fin[i]]]

pool_map(res, fin) == [i \in 1..Len(fin) |-> res[i]]

\* any(p is None for p in temp_pdfs)
all_none(paths) == \A i \in 1..Len(paths) : paths[i] = None

any_none(paths) == \E i \in 1..Len(paths) : paths[i] = None

RenderInit ==
    /\ html_chunks \in 1..MaxChunks
    /\ pc = "pool"
    /\ pool = "none"
    /\ task = [i \in 1..html_chunks |-> "queued"]
    /\ result = [i \in 1..html_chunks |-> Pending]
    /\ finished = <<>>
    /\ temp_pdfs = <<>>
    /\ exists = {}
    /\ content = [i \in 1..html_chunks |-> <<>>]
    /\ doc = <<>>
    /\ mi = 1
    /\ dest \in {[kind |-> "absent", pages |-> <<>>], [kind |-> "old", pages |-> <<>>]}
    /\ outcome = "none"

\* pool = multiprocessing.Pool(...); pool.map(render_chunk, html_chunks) starts
CreatePool ==
    /\ pc = "pool"
    /\ pool' = "open"
    /\ pc' = "map"
    /\ UNCHANGED <<html_chunks, task, result, finished, temp_pdfs, exists,
                   content, doc, mi, dest, outcome>>
    /\ UNCHANGED NotRender

\* a free pool worker takes chunk i
WorkerTake(i) ==
    /\ pc = "map"
    /\ task[i] = "queued"
    /\ Cardinality(Running) < NumWorkers
    /\ task' = [task EXCEPT ![i] = "mkstemp"]
    /\ UNCHANGED <<html_chunks, pc, pool, result, finished, temp_pdfs, exists,
                   content, doc, mi, dest, outcome>>
    /\ UNCHANGED NotRender

\* render_chunk: tempfile.mkstemp / os.close; an exception returns None
WorkerMkstemp(i) ==
    /\ task[i] = "mkstemp"
    /\ \/ /\ exists' = exists \cup {i}
          /\ task' = [task EXCEPT ![i] = "write"]
          /\ UNCHANGED <<result, finished>>
       \/ /\ task' = [task EXCEPT ![i] = "done"]
          /\ result' = [result EXCEPT ![i] = None]
          /\ finished' = Append(finished, i)
          /\ UNCHANGED exists
    /\ UNCHANGED <<html_chunks, pc, pool, temp_pdfs, content, doc, mi, dest, outcome>>
    /\ UNCHANGED NotRender

\* render_chunk: HTML(...).write_pdf(temp_path); an exception returns None
WorkerWritePdf(i) ==
    /\ task[i] = "write"
    /\ \/ \E np \in 1..MaxPages :
            /\ content' = [content EXCEPT ![i] = RenderedPages(i, np)]
            /\ result' = [result EXCEPT ![i] = i]
       \/ /\ result' = [result EXCEPT ![i] = None]
          /\ UNCHANGED content
    /\ task' = [task EXCEPT ![i] = "done"]
    /\ finished' = Append(finished, i)
    /\ UNCHANGED <<html_chunks, pc, pool, temp_pdfs, exists, doc, mi, dest, outcome>>
    /\ UNCHANGED NotRender

\* pool.map returns once every chunk has been rendered
MapReturn ==
    /\ pc = "map"
    /\ AllDone
    /\ temp_pdfs' = pool_map(result, finished)
    /\ pc' = "check"
    /\ UNCHANGED <<html_chunks, pool, task, result, finished, exists, content,
                   doc, mi, dest, outcome>>
    /\ UNCHANGED NotRender

\* if any(p is None ...): raise; else doc = fitz.open()
CheckFailures ==
    /\ pc = "check"
    /\ IF any_none(temp_pdfs)
          THEN pc' = "except"
          ELSE pc' = "open"
    /\ UNCHANGED <<html_chunks, pool, task, result, finished, temp_pdfs, exists,
                   content, doc, mi, dest, outcome>>
    /\ UNCHANGED NotRender

\* for temp_pdf in temp_pdfs: fitz.open(temp_pdf) (may raise); after the loop: save
MergeOpen ==
    /\ pc = "open"
    /\ IF mi > Len(temp_pdfs)
          THEN pc' = "save"
          ELSE \/ pc' = "insert"
               \/ pc' = "except"
    /\ UNCHANGED <<html_chunks, pool, task, result, finished, temp_pdfs, exists,
                   content, doc, mi, dest, outcome>>
    /\ UNCHANGED NotRender

\* doc.insert_pdf(part) (may raise); fitz.open(None) is a new empty document
MergeInsert ==
    /\ pc = "insert"
    /\ \/ /\ doc' = doc \o (IF temp_pdfs[mi] = None THEN <<>> ELSE content[temp_pdfs[mi]])
          /\ pc' = "remove"
       \/ /\ pc' = "except"
          /\ UNCHANGED doc
    /\ UNCHANGED <<html_chunks, pool, task, result, finished, temp_pdfs, exists,
                   content, mi, dest, outcome>>
    /\ UNCHANGED NotRender

\* try: os.remove(temp_pdf) except OSError: pass
MergeRemove ==
    /\ pc = "remove"
    /\ IF temp_pdfs[mi] = None
          THEN /\ pc' = "except"
               /\ UNCHANGED <<exists, mi>>
          ELSE /\ \/ exists' = exists \ {temp_pdfs[mi]}
                  \/ UNCHANGED exists
               /\ mi' = mi + 1
               /\ pc' = "open"
    /\ UNCHANGED <<html_chunks, pool, task, result, finished, temp_pdfs, content,
                   doc, dest, outcome>>
    /\ UNCHANGED NotRender

\* doc.save(output_path) writes the destination file in place; doc.close(); return True
Save ==
    /\ pc = "save"
    /\ \/ /\ dest' = [kind |-> "complete", pages |-> doc]
          /\ outcome' = "ok"
          /\ pc' = "finally"
       \/ /\ \E written \in 0..(Len(doc) - 1) :
                dest' = [kind |-> "partial", pages |-> SubSeq(doc, 1, written)]
          /\ pc' = "except"
          /\ UNCHANGED outcome
       \/ /\ pc' = "except"
          /\ UNCHANGED <<dest, outcome>>
    /\ UNCHANGED <<html_chunks, pool, task, result, finished, temp_pdfs, exists,
                   content, doc, mi>>
    /\ UNCHANGED NotRender

\* except Exception as e: logger.error(...); raise
Except ==
    /\ pc = "except"
    /\ outcome' = "raised"
    /\ pc' = "finally"
    /\ UNCHANGED <<html_chunks, pool, task, result, finished, temp_pdfs, exists,
                   content, doc, mi, dest>>
    /\ UNCHANGED NotRender

\* finally: pool.close()
PoolClose ==
    /\ pc = "finally"
    /\ pool = "open"
    /\ pool' = "closed"
    /\ UNCHANGED <<html_chunks, pc, task, result, finished, temp_pdfs, exists,
                   content, doc, mi, dest, outcome>>
    /\ UNCHANGED NotRender

\* finally without the join: control returns while the pool is only closed
PoolJoinSkipped ==
    /\ pc = "finally"
    /\ pool = "closed"
    /\ pc' = "exit"
    /\ UNCHANGED <<html_chunks, pool, task, result, finished, temp_pdfs, exists,
                   content, doc, mi, dest, outcome>>
    /\ UNCHANGED NotRender

\* finally: pool.join(); control returns to the caller
PoolJoin ==
    /\ pc = "finally"
    /\ pool = "closed"
    /\ Running = {}
    /\ pool' = "joined"
    /\ pc' = "exit"
    /\ UNCHANGED <<html_chunks, task, result, finished, temp_pdfs, exists,
                   content, doc, mi, dest, outcome>>
    /\ UNCHANGED NotRender

RenderNext ==
    \/ CreatePool
    \/ \E i \in Chunks : WorkerTake(i)
    \/ \E i \in Chunks : WorkerMkstemp(i)
    \/ \E i \in Chunks : WorkerWritePdf(i)
    \/ MapReturn
    \/ CheckFailures
    \/ MergeOpen
    \/ MergeInsert
    \/ MergeRemove
    \/ Save
    \/ Except
    \/ PoolClose
    \/ PoolJoin

\* ------------------------------------------------------------ processor.py
WordChars == {"a", "b"}

Alphabet == WordChars \cup {" ", "."}

PREFIX_OPEN == "<span class=\"bionic-prefix\">"
REST_OPEN == "<span class=\"bionic-rest\">"
SPAN_CLOSE == "</span>"

Markers == {PREFIX_OPEN, REST_OPEN, SPAN_CLOSE}

\* the value None where a markup string is expected
NoneHtml == <<"None">>

Texts == UNION {[1..n -> Alphabet] : n \in 0..MaxLen}

\* \w of the regular expression
is_word_char(c) == c \in WordChars

\* text.strip() is empty
is_blank(t) == \A i \in 1..Len(t) : t[i] = " "

Max(a, b) == IF a >= b THEN a ELSE b

\* k = max(1, int(len(word) * bold_ratio))
split_k_nomax(L, ratio) == (L * ratio) \div RatioDen

split_k(L, ratio) == Max(1, (L * ratio) \div RatioDen)

single_char_split(word) ==
    <<PREFIX_OPEN>> \o word \o <<SPAN_CLOSE, REST_OPEN, SPAN_CLOSE>>

\* if len(word) == 1: return the word inside one bionic-prefix span
single_char(word) ==
    <<PREFIX_OPEN>> \o word \o <<SPAN_CLOSE>>

wrap_word_dropchar(word, ratio) ==
    IF Len(word) = 1
       THEN single_char(word)
       ELSE LET k == split_k(Len(word), ratio)
                left == SubSeq(word, 1, k)
                right == SubSeq(word, k + 2, Len(word))
            IN <<PREFIX_OPEN>> \o left \o <<SPAN_CLOSE, REST_OPEN>> \o right \o <<SPAN_CLOSE>>

wrap_word(word, ratio) ==
    IF Len(word) = 1
       THEN single_char(word)
       ELSE LET k == split_k(Len(word), ratio)
                left == SubSeq(word, 1, k)
                right == SubSeq(word, k + 1, Len(word))
            IN <<PREFIX_OPEN>> \o left \o <<SPAN_CLOSE, REST_OPEN>> \o right \o <<SPAN_CLOSE>>

\* first position >= from holding a word character, 0 when there is none
NextMatch(t, from) ==
    LET S == {i \in from..Len(t) : is_word_char(t[i])}
    IN IF S = {} THEN 0 ELSE CHOOSE i \in S : \A j \in S : i <= j

\* last position of the maximal run of word characters starting at s
MatchEnd(t, s) ==
    CHOOSE e \in s..Len(t) :
        /\ \A j \in s..e : is_word_char(t[j])
        /\ e = Len(t) \/ ~is_word_char(t[e + 1])

\* for m in re.finditer(r"(\w+)", text): ... ; last_index counts consumed characters
RECURSIVE finditer_loop(_, _, _, _)
finditer_loop(t, ratio, last_index, html) ==
    LET s == NextMatch(t, last_index + 1)
    IN IF s = 0
          THEN [last_index |-> last_index, new_html |-> html]
          ELSE LET e == MatchEnd(t, s)
                   before == IF s - 1 > last_index
                                THEN SubSeq(t, last_index + 1, s - 1)
                                ELSE <<>>
               IN finditer_loop(t, ratio, e,
                                html \o before \o wrap_word(SubSeq(t, s, e), ratio))

process_text_node(t, ratio) ==
    IF is_blank(t)
       THEN NoneHtml
       ELSE LET st == finditer_loop(t, ratio, 0, <<>>)
            IN IF st.last_index < Len(t)
                  THEN st.new_html \o SubSeq(t, st.last_index + 1, Len(t))
                  ELSE st.new_html

EmphasisIdle ==
    /\ text = <<>>
    /\ bold_ratio = RatioDen
    /\ epc = "idle"
    /\ new_html = <<>>
    /\ wrapped = <<>>
    /\ run = [bold |-> FALSE, italic |-> FALSE]
    /\ p_div = <<>>
    /\ html_content = <<>>
    /\ soup = <<>>

EmphasisInit ==
    /\ text \in Texts
    /\ bold_ratio \in 1..RatioDen
    /\ epc = "input"
    /\ new_html = <<>>
    /\ wrapped = <<>>
    /\ run \in [bold : BOOLEAN, italic : BOOLEAN]
    /\ p_div = <<>>
    /\ html_content = <<>>
    /\ soup = <<>>

\* a caller passes the text of a run or of a text node
CallProcessTextNode ==
    /\ epc = "input"
    /\ new_html' = process_text_node(text, bold_ratio)
    /\ epc' = "node"
    /\ UNCHANGED <<text, bold_ratio, wrapped, run, p_div, html_content, soup>>
    /\ UNCHANGED NotEmphasis

\* process_text_node passes one match of \w+
CallWrapWord ==
    /\ epc = "input"
    /\ Len(text) >= 1
    /\ \A i \in 1..Len(text) : is_word_char(text[i])
    /\ wrapped' = wrap_word(text, bold_ratio)
    /\ epc' = "word"
    /\ UNCHANGED <<text, bold_ratio, new_html, run, p_div, html_content, soup>>
    /\ UNCHANGED NotEmphasis

\* styles = []; if run.bold: ...; if run.italic: ...
run_styles(r) ==
    (IF r.bold THEN <<"font-weight: bold">> ELSE <<>>)
        \o (IF r.italic THEN <<"font-style: italic">> ELSE <<>>)

\* span = E.SPAN(text); if styles: span.set("style", "; ".join(styles))
text_span(t, styles) ==
    [tag |-> "span", style |-> styles, text |-> t, children |-> <<>>]

\* number of leading items of a markup string that precede its first tag
LeadingText(html) ==
    IF \E i \in 1..Len(html) : html[i] \in Markers
       THEN (CHOOSE i \in 1..Len(html) :
                /\ html[i] \in Markers
                /\ \A j \in 1..(i - 1) : html[j] \notin Markers) - 1
       ELSE Len(html)

\* dummy = html.fromstring("<div>" + bionic_html + "</div>"); the container
\* span takes dummy.text and then every child of dummy with its tail
container_span(bionic_html, styles) ==
    LET n == LeadingText(bionic_html)
    IN [tag |-> "span", style |-> styles,
        text |-> SubSeq(bionic_html, 1, n),
        children |-> SubSeq(bionic_html, n + 1, Len(bionic_html))]

build_run_omitting(t, r, ratio) ==
    IF t = <<>>
       THEN <<>>
       ELSE LET bionic_html == process_text_node(t, ratio)
            IN IF bionic_html = NoneHtml \/ bionic_html = <<>>
                  THEN <<>>
                  ELSE <<container_span(bionic_html, run_styles(r))>>

\* the text branch of build_paragraph_element for one run: what it appends to p_div
build_run(t, r, ratio) ==
    IF t = <<>>
       THEN <<>>
       ELSE LET bionic_html == process_text_node(t, ratio)
            IN IF bionic_html = NoneHtml \/ bionic_html = <<>>
                  THEN <<text_span(t, run_styles(r))>>
                  ELSE <<container_span(bionic_html, run_styles(r))>>

\* build_paragraph_element reaches a run of the paragraph
BuildRun ==
    /\ epc = "input"
    /\ p_div' = p_div \o build_run(text, run, bold_ratio)
    /\ epc' = "run"
    /\ UNCHANGED <<text, bold_ratio, new_html, wrapped, run, html_content, soup>>
    /\ UNCHANGED NotEmphasis

\* last position of the text node that starts at position s of the markup
TextNodeEnd(html, s) ==
    CHOOSE e \in s..Len(html) :
        /\ \A j \in s..e : html[j] \notin Markers
        /\ e = Len(html) \/ html[e + 1] \in Markers

\* the traversal of the parsed markup, read off its serialization: a tag is
\* kept, a text node is replaced by the parsed process_text_node(str(child))
\* unless that is None; the replacement is not visited again in the same pass
RECURSIVE recurse_replace(_, _, _)
recurse_replace(html, ratio, from) ==
    IF from > Len(html)
       THEN <<>>
       ELSE IF html[from] \in Markers
               THEN <<html[from]>> \o recurse_replace(html, ratio, from + 1)
               ELSE LET e == TextNodeEnd(html, from)
                        child == SubSeq(html, from, e)
                        node_html == process_text_node(child, ratio)
                    IN (IF node_html # NoneHtml THEN node_html ELSE child)
                           \o recurse_replace(html, ratio, e + 1)

\* soup = BeautifulSoup(html_content); recurse_replace(...); return str(soup)
apply_bionic_reading(html, ratio) == recurse_replace(html, ratio, 1)

\* apply_bionic_reading is called on markup that holds the text
ApplyBionicReading ==
    /\ epc = "input"
    /\ html_content' = text
    /\ soup' = apply_bionic_reading(text, bold_ratio)
    /\ epc' = "applied"
    /\ UNCHANGED <<text, bold_ratio, new_html, wrapped, run, p_div>>
    /\ UNCHANGED NotEmphasis

\* apply_bionic_reading is called on the markup a first call returned
ApplyBionicReadingAgain ==
    /\ epc = "applied"
    /\ html_content' = soup
    /\ soup' = apply_bionic_reading(soup, bold_ratio)
    /\ epc' = "reapplied"
    /\ UNCHANGED <<text, bold_ratio, new_html, wrapped, run, p_div>>
    /\ UNCHANGED NotEmphasis

EmphasisNext ==
    \/ CallProcessTextNode
    \/ CallWrapWord
    \/ BuildRun
    \/ ApplyBionicReading
    \/ ApplyBionicReadingAgain


\* ------------------------------------------- image_handler.py, converter.py
CHUNK_SIZE == 100

Rids == 1..Len(blobs)

MAX_IMAGE_WIDTH == 1200

NoneUrl == [mime |-> "None", payload |-> 0, size |-> <<0, 0>>]

Raised == [mime |-> "exception", payload |-> 0, size |-> <<0, 0>>]

\* "PNG" for an image with transparency, else image.convert("RGB") and "JPEG"
format_type(blob) == IF blob.alpha THEN "PNG" ELSE "JPEG"

\* int(x * ratio) with ratio = MAX_IMAGE_WIDTH / float(width); short is 1 when
\* the floating-point product falls just below an integer quotient
scaled(x, width, short) == (x * MAX_IMAGE_WIDTH) \div width - short

\* the results floating-point rounding can give for the two products: a
\* quotient that is not an integer is far from the next integer and truncates
\* exactly, an integer quotient may be reached or missed from below
Rounding(blob) ==
    IF blob.width > MAX_IMAGE_WIDTH
       THEN [w : {0, 1},
             h : IF (blob.height * MAX_IMAGE_WIDTH) % blob.width = 0
                    THEN {0, 1} ELSE {0}]
       ELSE {[w |-> 0, h |-> 0]}

new_size_keep_height(blob, fl) ==
    IF blob.width > MAX_IMAGE_WIDTH
       THEN <<scaled(blob.width, blob.width, fl.w), blob.height>>
       ELSE <<blob.width, blob.height>>

\* width, height = image.size; the size after the resize step
new_size(blob, fl) ==
    IF blob.width > MAX_IMAGE_WIDTH
       THEN <<scaled(blob.width, blob.width, fl.w),
              scaled(blob.height, blob.width, fl.h)>>
       ELSE <<blob.width, blob.height>>

\* f"data:{mime_type};base64,{encoded}" of the saved image
DataUrl(blob, size) ==
    [mime |-> IF format_type(blob) = "JPEG" THEN "image/jpeg" ELSE "image/png",
     payload |-> blob.bytes,
     size |-> size]

\* the worker: decode, resize, re-encode; any exception (an image that does not
\* decode, a resize to an empty size) is logged and gives (rel_id, None)
process_single_image_raises(blob, rid, fl) ==
    IF blob.decodes /\ new_size(blob, fl)[2] >= 1
       THEN <<rid, DataUrl(blob, new_size(blob, fl))>>
       ELSE <<rid, Raised>>

process_single_image(blob, rid, fl) ==
    IF blob.decodes /\ new_size(blob, fl)[2] >= 1
       THEN <<rid, DataUrl(blob, new_size(blob, fl))>>
       ELSE <<rid, NoneUrl>>

\* f.result() and the executor's shutdown(wait=True) block until the task is done
future_done_nowait(f) == TRUE

future_done(f) == future[f] = "done"

Img(src) == [tag |-> "img", src |-> src]

\* build_paragraph_element, the drawings of a run: one image container per
\* blip whose embed id is a key of images_dict
image_containers_placeholder(embed, dict) ==
    IF embed # 0
       THEN IF embed \in DOMAIN dict THEN << <<Img(dict[embed])>> >> ELSE << <<>> >>
       ELSE <<>>

image_containers(embed, dict) ==
    IF embed # 0 /\ embed \in DOMAIN dict
       THEN << <<Img(dict[embed])>> >>
       ELSE <<>>

\* the block built for body element i: a paragraph div, or a table whose cell
\* paragraph is built by build_paragraph_element
build_block(el, i, dict) ==
    [tag |-> el.tag, src |-> i, containers |-> image_containers(el.embed, dict)]

\* if len(current_chunk_elements) >= CHUNK_SIZE
chunk_full_gt(current) == Len(current) > CHUNK_SIZE

chunk_full(current) == Len(current) >= CHUNK_SIZE

\* the remaining elements become the last chunk
flush_remaining_dropped(cs, current) == cs

flush_remaining(cs, current) == IF current # <<>> THEN Append(cs, current) ELSE cs

\* guard against empty content: if not chunks: chunks.append(head + tail)
guard_empty(cs) == IF cs = <<>> THEN << <<>> >> ELSE cs

\* a body element: its tag, the image its drawing embeds (0: none), and whether
\* python-docx raises while the element's paragraph is read
Elements(n) ==
    [tag : {"p", "tbl"}, embed : 0..n, malformed : BOOLEAN]
        \cup {[tag |-> "sectPr", embed |-> 0, malformed |-> FALSE]}

ConvertIdle ==
    /\ cpc = "idle"
    /\ blobs = <<>>
    /\ body = <<>>
    /\ future = <<>>
    /\ fresult = <<>>
    /\ fi = 1
    /\ results = <<>>
    /\ images_dict = <<>>
    /\ ei = 1
    /\ body_content = <<>>
    /\ ci = 1
    /\ current_chunk_elements = <<>>
    /\ chunks = <<>>
    /\ error = "none"

ConvertStart ==
    /\ cpc = "convert"
    /\ future = <<>>
    /\ fresult = <<>>
    /\ fi = 1
    /\ results = <<>>
    /\ images_dict = <<>>
    /\ ei = 1
    /\ body_content = <<>>
    /\ ci = 1
    /\ current_chunk_elements = <<>>
    /\ chunks = <<>>
    /\ error = "none"

\* a document with images
ImagesInit ==
    /\ \E n \in 0..MaxImages :
          /\ \E d \in [1..n -> BOOLEAN] :
                blobs = [i \in 1..n |-> [decodes |-> d[i], bytes |-> i, alpha |-> FALSE,
                                         width |-> i, height |-> 1]]
          /\ \E m \in 0..MaxElems : body \in [1..m -> Elements(n)]
    /\ ConvertStart

Widths ==
    {1, MAX_IMAGE_WIDTH - 1, MAX_IMAGE_WIDTH, MAX_IMAGE_WIDTH + 1,
     2 * MAX_IMAGE_WIDTH, 2 * MAX_IMAGE_WIDTH + 1, 3 * MAX_IMAGE_WIDTH + 7}

Heights ==
    {1, 2, 3, MAX_IMAGE_WIDTH - 400, MAX_IMAGE_WIDTH, 2 * MAX_IMAGE_WIDTH + 1,
     3 * MAX_IMAGE_WIDTH + 7}

\* a document of one paragraph that embeds its one image
NormalizeInit ==
    /\ \E w \in Widths, h \in Heights, a \in BOOLEAN, d \in BOOLEAN :
          blobs = <<[decodes |-> d, bytes |-> 1, alpha |-> a, width |-> w, height |-> h]>>
    /\ body = <<[tag |-> "p", embed |-> 1, malformed |-> FALSE]>>
    /\ ConvertStart

\* a document without images: paragraphs, or paragraphs and tables interleaved
PartitionInit ==
    /\ blobs = <<>>
    /\ \E m \in 0..MaxBlocks : \E tables \in BOOLEAN :
          body = [i \in 1..m |->
                     [tag |-> IF tables /\ i % 2 = 0 THEN "tbl" ELSE "p",
                      embed |-> 0, malformed |-> FALSE]]
    /\ ConvertStart

\* cv.convert(...); an exception is logged and re-raised; then Document(docx_path)
Convert ==
    /\ cpc = "convert"
    /\ \/ /\ cpc' = "extract"
          /\ UNCHANGED error
       \/ /\ cpc' = "raised"
          /\ error' = "pdf2docx"
    /\ UNCHANGED <<blobs, body, future, fresult, fi, results, images_dict, ei,
                   body_content, ci, current_chunk_elements, chunks>>
    /\ UNCHANGED NotConvert

\* extract_images_from_doc: collect the tasks; return {} when there are none,
\* else submit every task to the executor
ExtractSubmit ==
    /\ cpc = "extract"
    /\ IF Len(blobs) = 0
          THEN /\ cpc' = "assemble"
               /\ UNCHANGED <<future, fresult>>
          ELSE /\ cpc' = "collect"
               /\ future' = [rid \in Rids |-> "pending"]
               /\ fresult' = [rid \in Rids |-> <<rid, NoneUrl>>]
    /\ UNCHANGED <<blobs, body, fi, results, images_dict, ei, body_content,
                   ci, current_chunk_elements, chunks, error>>
    /\ UNCHANGED NotConvert

\* an executor thread runs process_single_image for one task
RunImageTask(rid) ==
    /\ rid \in DOMAIN future
    /\ future[rid] = "pending"
    /\ \E fl \in Rounding(blobs[rid]) :
          fresult' = [fresult EXCEPT ![rid] = process_single_image(blobs[rid], rid, fl)]
    /\ future' = [future EXCEPT ![rid] = "done"]
    /\ UNCHANGED <<cpc, blobs, body, fi, results, images_dict, ei, body_content,
                   ci, current_chunk_elements, chunks, error>>
    /\ UNCHANGED NotConvert

store_result_first(res, rid, data_url) == (1 :> data_url) @@ res

\* results[rid] = data_url
store_result(res, rid, data_url) == (rid :> data_url) @@ res

\* for f in futures: rid, data_url = f.result(); if data_url: results[rid] = data_url
Collect ==
    /\ cpc = "collect"
    /\ fi <= Len(blobs)
    /\ future_done(fi)
    /\ LET rid == fresult[fi][1]
           data_url == fresult[fi][2]
       IN IF data_url = Raised
             THEN /\ cpc' = "raised"
                  /\ error' = "image"
                  /\ UNCHANGED <<fi, results>>
             ELSE /\ results' = IF data_url # NoneUrl
                                   THEN store_result(results, rid, data_url)
                                   ELSE results
                  /\ fi' = fi + 1
                  /\ UNCHANGED <<cpc, error>>
    /\ UNCHANGED <<blobs, body, future, fresult, images_dict, ei, body_content,
                   ci, current_chunk_elements, chunks>>
    /\ UNCHANGED NotConvert

\* the with block ends (executor shutdown waits for its threads); return results
ExtractReturn ==
    /\ cpc = "collect"
    /\ fi > Len(blobs)
    /\ \A rid \in Rids : future_done(rid)
    /\ images_dict' = results
    /\ cpc' = "assemble"
    /\ UNCHANGED <<blobs, body, future, fresult, fi, results, ei, body_content,
                   ci, current_chunk_elements, chunks, error>>
    /\ UNCHANGED NotConvert

\* for element in doc.element.body: paragraphs and tables are built and appended
\* an exception of build_paragraph_element / process_table is not caught here
AssembleStep ==
    /\ cpc = "assemble"
    /\ ei <= Len(body)
    /\ IF body[ei].tag \in {"p", "tbl"} /\ body[ei].malformed
          THEN /\ cpc' = "raised"
               /\ error' = "block"
               /\ UNCHANGED <<ei, body_content>>
          ELSE /\ body_content' =
                     IF body[ei].tag \in {"p", "tbl"}
                        THEN Append(body_content, build_block(body[ei], ei, images_dict))
                        ELSE body_content
               /\ ei' = ei + 1
               /\ UNCHANGED <<cpc, error>>
    /\ UNCHANGED <<blobs, body, future, fresult, fi, results, images_dict, ci,
                   current_chunk_elements, chunks>>
    /\ UNCHANGED NotConvert

\* for i, elem in enumerate(body_content): append it; a full chunk is closed
ChunkStep ==
    /\ cpc = "assemble"
    /\ ei > Len(body)
    /\ ci <= Len(body_content)
    /\ LET current == Append(current_chunk_elements, body_content[ci])
       IN IF chunk_full(current)
             THEN /\ chunks' = Append(chunks, current)
                  /\ current_chunk_elements' = <<>>
             ELSE /\ current_chunk_elements' = current
                  /\ UNCHANGED chunks
    /\ ci' = ci + 1
    /\ UNCHANGED <<cpc, blobs, body, future, fresult, fi, results, images_dict, ei,
                   body_content, error>>
    /\ UNCHANGED NotConvert

\* after the loop: the remaining elements, the empty-content guard, return chunks
ChunkContent ==
    /\ cpc = "assemble"
    /\ ei > Len(body)
    /\ ci > Len(body_content)
    /\ chunks' = guard_empty(flush_remaining(chunks, current_chunk_elements))
    /\ cpc' = "returned"
    /\ UNCHANGED <<blobs, body, future, fresult, fi, results, images_dict, ei,
                   body_content, ci, current_chunk_elements, error>>
    /\ UNCHANGED NotConvert

\* ------------------------------------------------------------------- cli.py
MainSizes == {0, 1, CHUNK_SIZE + 1, 2 * CHUNK_SIZE + 1}

MainIdle ==
    /\ mpc = "idle"
    /\ input_exists = TRUE
    /\ exit_status = -1
    /\ success_logged = FALSE

\* the process starts on an image-free document; its last block may be malformed
MainInit ==
    /\ mpc = "start"
    /\ input_exists \in BOOLEAN
    /\ exit_status = -1
    /\ success_logged = FALSE
    /\ cpc = "idle"
    /\ blobs = <<>>
    /\ \E m \in MainSizes : \E bad \in BOOLEAN :
          body = [i \in 1..m |-> [tag |-> "p", embed |-> 0,
                                  malformed |-> bad /\ i = m]]
    /\ future = <<>>
    /\ fresult = <<>>
    /\ fi = 1
    /\ results = <<>>
    /\ images_dict = <<>>
    /\ ei = 1
    /\ body_content = <<>>
    /\ ci = 1
    /\ current_chunk_elements = <<>>
    /\ chunks = <<>>
    /\ error = "none"

\* if not os.path.exists(input_path): logger.error(...); sys.exit(1)
CheckInput ==
    /\ mpc = "start"
    /\ IF input_exists
          THEN /\ mpc' = "convert"
               /\ UNCHANGED exit_status
          ELSE /\ mpc' = "exited"
               /\ exit_status' = 1
    /\ UNCHANGED <<input_exists, success_logged, rvars, evars, cvars>>

\* html_chunks = pdf_to_html(input_path, ...)
CallPdfToHtml ==
    /\ mpc = "convert"
    /\ cpc = "idle"
    /\ cpc' = "convert"
    /\ mpc' = "in_convert"
    /\ UNCHANGED <<blobs, body, future, fresult, fi, results, images_dict, ei,
                   body_content, ci, current_chunk_elements, chunks, error>>
    /\ UNCHANGED <<input_exists, exit_status, success_logged, rvars, evars>>

\* pdf_to_html returned the chunks, or raised: except Exception: ... sys.exit(1)
PdfToHtmlDone ==
    /\ mpc = "in_convert"
    /\ cpc \in {"returned", "raised"}
    /\ IF cpc = "raised"
          THEN /\ mpc' = "exited"
               /\ exit_status' = 1
          ELSE /\ mpc' = "render"
               /\ UNCHANGED exit_status
    /\ UNCHANGED <<input_exists, success_logged, rvars, evars, cvars>>

\* render_pdf(html_chunks, output_path)
CallRenderPdf ==
    /\ mpc = "render"
    /\ pc = "idle"
    /\ html_chunks' = Len(chunks)
    /\ task' = [i \in 1..Len(chunks) |-> "queued"]
    /\ result' = [i \in 1..Len(chunks) |-> Pending]
    /\ content' = [i \in 1..Len(chunks) |-> <<>>]
    /\ pc' = "pool"
    /\ mpc' = "in_render"
    /\ UNCHANGED <<pool, finished, temp_pdfs, exists, doc, mi, dest, outcome>>
    /\ UNCHANGED <<input_exists, exit_status, success_logged, evars, cvars>>

\* render_pdf raised although it should have been reported: the error is swallowed
RenderPdfDoneSwallowed ==
    /\ mpc = "in_render"
    /\ pc = "exit"
    /\ success_logged' = TRUE
    /\ exit_status' = 0
    /\ mpc' = "exited"
    /\ UNCHANGED <<input_exists, rvars, evars, cvars>>

\* render_pdf returned: logger.info("Success! ...") and the process ends with
\* status 0; it raised: except Exception: logger.error(...); sys.exit(1)
RenderPdfDone ==
    /\ mpc = "in_render"
    /\ pc = "exit"
    /\ IF outcome = "raised"
          THEN /\ exit_status' = 1
               /\ UNCHANGED success_logged
          ELSE /\ success_logged' = TRUE
               /\ exit_status' = 0
    /\ mpc' = "exited"
    /\ UNCHANGED <<input_exists, rvars, evars, cvars>>

MainNext ==
    \/ CheckInput
    \/ CallPdfToHtml
    \/ PdfToHtmlDone
    \/ CallRenderPdf
    \/ RenderPdfDone

\* ------------------------------------------------------------ specifications
RenderIdle ==
    /\ html_chunks = 0
    /\ pc = "idle"
    /\ pool = "none"
    /\ task = <<>>
    /\ result = <<>>
    /\ finished = <<>>
    /\ temp_pdfs = <<>>
    /\ exists = {}
    /\ content = <<>>
    /\ doc = <<>>
    /\ mi = 1
    /\ dest = [kind |-> "absent", pages |-> <<>>]
    /\ outcome = "none"

Init == RenderInit /\ EmphasisIdle /\ ConvertIdle /\ MainIdle

Next == RenderNext

Spec == Init /\ [][Next]_vars

InitEmphasis == EmphasisInit /\ RenderIdle /\ ConvertIdle /\ MainIdle

NextEmphasis == EmphasisNext

SpecEmphasis == InitEmphasis /\ [][NextEmphasis]_vars

InitImages == ImagesInit /\ RenderIdle /\ EmphasisIdle /\ MainIdle

NextImages ==
    \/ Convert
    \/ ExtractSubmit
    \/ \E rid \in Rids : RunImageTask(rid)
    \/ Collect
    \/ ExtractReturn
    \/ AssembleStep
    \/ ChunkStep
    \/ ChunkContent

SpecImages == InitImages /\ [][NextImages]_vars

InitNormalize == NormalizeInit /\ RenderIdle /\ EmphasisIdle /\ MainIdle

SpecNormalize == InitNormalize /\ [][NextImages]_vars

InitPartition == PartitionInit /\ RenderIdle /\ EmphasisIdle /\ MainIdle

NextPartition ==
    \/ Convert
    \/ ExtractSubmit
    \/ AssembleStep
    \/ ChunkStep
    \/ ChunkContent

SpecPartition == InitPartition /\ [][NextPartition]_vars

InitMain == MainInit /\ RenderIdle /\ EmphasisIdle

NextMain ==
    \/ MainNext
    \/ Convert
    \/ ExtractSubmit
    \/ AssembleStep
    \/ ChunkStep
    \/ ChunkContent
    \/ RenderNext

SpecMain == InitMain /\ [][NextMain]_vars

\* ------------------------------------------------------------- properties
\* pages of chunks 1..n in chunk sequence-index order
RECURSIVE IndexOrderPages(_)
IndexOrderPages(n) == IF n = 0 THEN <<>> ELSE IndexOrderPages(n - 1) \o content[n]

SomeChunkFailed == \E i \in Chunks : result[i] = None

DestUntouched == dest.kind \in {"absent", "old"}

\* C1: whatever order the chunk renders finish in, the saved artifact holds
\* chunk 1's pages, then chunk 2's, ... in the order of the list passed in.
MergeOrder ==
    outcome = "ok" =>
        /\ dest.kind = "complete"
        /\ dest.pages = IndexOrderPages(html_chunks)

\* a run that succeeded although a later chunk finished rendering first
MergeOrderWitness ==
    /\ pc = "exit"
    /\ outcome = "ok"
    /\ html_chunks >= 2
    /\ finished[1] # 1
    /\ Len(dest.pages) > html_chunks

\* C2: once the render of any chunk has returned None, merging never starts,
\* the destination file is never created or modified, and render_pdf raises.
FailFast ==
    SomeChunkFailed =>
        /\ DestUntouched
        /\ doc = <<>>
        /\ pc \notin {"open", "insert", "remove", "save"}
        /\ outcome # "ok"
        /\ pc = "exit" => outcome = "raised"

\* render_pdf has raised with one chunk failed and another one rendered
FailFastWitness ==
    /\ pc = "exit"
    /\ outcome = "raised"
    /\ \E i \in Chunks : result[i] = None
    /\ \E j \in Chunks : result[j] = j /\ content[j] # <<>>

\* C3: when render_pdf returns or raises, no temp file made by a render_chunk
\* call still exists.
UnconditionalCleanup == pc = "exit" => exists = {}

\* C4: when merging fails, the destination file is neither created nor left
\* partially written.
AtomicDestination == outcome = "raised" => DestUntouched

\* plain-text projection: the markup with the inserted span markers removed
IsText(tok) == tok \notin Markers

plain_text(h) == IF h = NoneHtml THEN <<>> ELSE SelectSeq(h, IsText)

\* C5 as stated: for every text the projection of process_text_node's result
\* equals the text.
RoundTripAll == epc = "node" => plain_text(new_html) = text

\* C5 amended: for every text with a non-whitespace character the result is
\* markup whose projection equals the text; for whitespace-only or empty text
\* the result is None.
RoundTrip ==
    epc = "node" =>
        IF is_blank(text)
           THEN new_html = NoneHtml
           ELSE new_html # NoneHtml /\ plain_text(new_html) = text

\* a text with a split word and punctuation has been emphasized
RoundTripWitness ==
    /\ epc = "node"
    /\ \E i \in 1..Len(new_html) : new_html[i] = REST_OPEN
    /\ \E i \in 1..Len(text) : text[i] = "."
    /\ \E i \in 1..Len(text) : text[i] = " "

\* number of characters inside the first (strong) span of wrap_word's output
StrongLen(w) ==
    LET close == CHOOSE i \in 1..Len(w) :
                     w[i] = SPAN_CLOSE /\ \A j \in 1..(i - 1) : w[j] # SPAN_CLOSE
    IN close - 2

ExpectedK == Max(1, (Len(text) * bold_ratio) \div RatioDen)

\* C6 as stated: for a word of length L >= 2 the strong prefix has length
\* k = max(1, floor(L*r)) and 1 <= k < L.
SplitPointStrict ==
    (epc = "word" /\ Len(text) >= 2) =>
        /\ wrapped[1] = PREFIX_OPEN
        /\ StrongLen(wrapped) = ExpectedK
        /\ 1 <= StrongLen(wrapped)
        /\ StrongLen(wrapped) < Len(text)

\* C6 amended: the strong prefix has length k = max(1, floor(L*r)) with
\* 1 <= k <= L, and k < L whenever r < 1 (at r = 1 the whole word is strong).
SplitPoint ==
    (epc = "word" /\ Len(text) >= 2) =>
        /\ wrapped[1] = PREFIX_OPEN
        /\ StrongLen(wrapped) = ExpectedK
        /\ 1 <= StrongLen(wrapped)
        /\ StrongLen(wrapped) <= Len(text)
        /\ bold_ratio < RatioDen => StrongLen(wrapped) < Len(text)

\* a word of at least three characters split after more than one character
SplitPointWitness ==
    /\ epc = "word"
    /\ Len(text) >= 3
    /\ bold_ratio < RatioDen
    /\ StrongLen(wrapped) >= 2

\* C7: pdf_to_html returns ceil(N/100) chunks for N > 0 blocks and exactly one
\* empty chunk for N = 0; it never returns zero chunks.
ChunkCount ==
    cpc = "returned" =>
        /\ Len(chunks) >= 1
        /\ IF Len(body_content) = 0
              THEN chunks = << <<>> >>
              ELSE Len(chunks) = (Len(body_content) + 99) \div 100

\* more than two full chunks' worth of blocks has been partitioned
ChunkCountWitness ==
    /\ cpc = "returned"
    /\ Len(body_content) > 200
    /\ Len(chunks) = 3

BadRids == {rid \in Rids : ~blobs[rid].decodes}

\* C8: no block is built, and the assembler is not entered, while a submitted
\* image id is still pending: each has completed with a payload bound in the
\* mapping or with a null result.
NormalizationBarrier ==
    (cpc \in {"assemble", "returned"} \/ body_content # <<>>) =>
        \A rid \in DOMAIN future :
            /\ future[rid] = "done"
            /\ rid \in DOMAIN images_dict \/ fresult[rid][2] = NoneUrl

\* blocks are being built after two images were normalized
NormalizationBarrierWitness ==
    /\ cpc = "assemble"
    /\ body_content # <<>>
    /\ Len(blobs) >= 2
    /\ \A rid \in Rids : future[rid] = "done"

\* C9: a failed image yields (rid, None) and never makes pdf_to_html raise;
\* once extract_images_from_doc has returned, every image that decodes is
\* bound to its own payload and a failed one is absent.
ImageFailureAbsorbed ==
    /\ error # "image"
    /\ cpc \in {"assemble", "returned"} =>
          \A rid \in Rids :
              IF blobs[rid].decodes
                 THEN /\ rid \in DOMAIN images_dict
                      /\ images_dict[rid] = DataUrl(blobs[rid], <<blobs[rid].width, blobs[rid].height>>)
                 ELSE /\ rid \notin DOMAIN images_dict
                      /\ fresult[rid] = <<rid, NoneUrl>>

\* the chunks were returned for a document with a failed and a good image
ImageFailureAbsorbedWitness ==
    /\ cpc = "returned"
    /\ BadRids # {}
    /\ Rids \ BadRids # {}
    /\ body_content # <<>>

OneFailedImage == Cardinality(BadRids) = 1

RefersToFailedImage(b) == body[b.src].embed \in BadRids

\* C10 as stated: with one image failing to decode the chunks are produced
\* and the block referencing it holds an image container that is empty.
EmptyContainerPresent ==
    (cpc = "returned" /\ OneFailedImage) =>
        /\ error = "none"
        /\ \A i \in 1..Len(body_content) :
              RefersToFailedImage(body_content[i]) =>
                  body_content[i].containers = << <<>> >>

\* C10 amended: with one image failing to decode the chunks are produced and
\* the block referencing it holds no image container at all; every container
\* that is emitted holds its image.
ContainerOmitted ==
    (cpc = "returned" /\ OneFailedImage) =>
        /\ error = "none"
        /\ \A i \in 1..Len(body_content) :
              /\ \E c \in 1..Len(chunks) : \E k \in 1..Len(chunks[c]) :
                    chunks[c][k] = body_content[i]
              /\ RefersToFailedImage(body_content[i]) =>
                    body_content[i].containers = <<>>
              /\ \A c \in 1..Len(body_content[i].containers) :
                    body_content[i].containers[c] # <<>>

\* a block referencing the failed image was emitted next to one showing a good image
ContainerOmittedWitness ==
    /\ cpc = "returned"
    /\ OneFailedImage
    /\ \E i \in 1..Len(body_content) : RefersToFailedImage(body_content[i])
    /\ \E i \in 1..Len(body_content) : body_content[i].containers # <<>>

IsWellFormedBlock(i) == body[i].tag \in {"p", "tbl"} /\ ~body[i].malformed

BodyIndices == [i \in 1..Len(body) |-> i]

\* C11: a paragraph or table whose build fails is skipped: pdf_to_html does not
\* raise because of it and returns every other block, in document order.
MalformedBlockSkipped ==
    /\ error # "block"
    /\ cpc = "returned" =>
          [i \in 1..Len(body_content) |-> body_content[i].src]
              = SelectSeq(BodyIndices, IsWellFormedBlock)

\* the orchestrator's state: partitioning ends when pdf_to_html has returned the
\* chunks, rendering is pool.map and the None check, merging is the merge loop
\* and the save
OrchState ==
    IF pc = "except" \/ outcome = "raised" THEN "Failed"
    ELSE IF outcome = "ok" THEN "Done"
    ELSE IF pc \in {"open", "insert", "remove", "save"} THEN "Merging"
    ELSE IF pc \in {"map", "check"} THEN "Rendering"
    ELSE IF pc = "pool" \/ cpc = "returned" THEN "Partitioned"
    ELSE "Idle"

OrchTransitions ==
    { <<"Idle", "Partitioned">>, <<"Partitioned", "Rendering">>,
      <<"Rendering", "Merging">>, <<"Merging", "Done">>,
      <<"Rendering", "Failed">>, <<"Merging", "Failed">> }

NoRenderInFlight == \A i \in Chunks : task[i] = "done"

OrchStep ==
    /\ OrchState' # OrchState => <<OrchState, OrchState'>> \in OrchTransitions
    /\ OrchState' = "Merging" => NoRenderInFlight'
    /\ dest' # dest => OrchState = "Merging" /\ NoRenderInFlight

\* C12: the orchestrator only moves Idle -> Partitioned -> Rendering -> Merging
\* -> Done, with Failed entered from Rendering or Merging only; Merging is
\* entered, and the destination written, only when every chunk render returned.
StateOrder == [][OrchStep]_vars

\* three chunks were rendered, merged and saved
StateOrderWitness ==
    /\ mpc = "in_render"
    /\ OrchState = "Done"
    /\ html_chunks = 3
    /\ dest.kind = "complete"

\* C15: a run whose text is not empty and holds only whitespace is appended to
\* the paragraph as one span that carries the run's style and the run's text
\* unchanged, with no emphasis markup.
NullEmphasisFallback ==
    (epc = "run" /\ text # <<>> /\ process_text_node(text, bold_ratio) = NoneHtml) =>
        /\ Len(p_div) = 1
        /\ p_div[1].tag = "span"
        /\ p_div[1].text = text
        /\ p_div[1].children = <<>>
        /\ p_div[1].style = run_styles(run)

\* a bold italic run of two spaces was appended
NullEmphasisFallbackWitness ==
    /\ epc = "run"
    /\ text = <<" ", " ">>
    /\ run = [bold |-> TRUE, italic |-> TRUE]
    /\ Len(p_div) = 1

\* C16: for a word of one character wrap_word returns that character inside one
\* bionic-prefix span and nothing else, whatever the ratio.
OneCharWord ==
    (epc = "word" /\ Len(text) = 1) =>
        /\ wrapped = <<PREFIX_OPEN, text[1], SPAN_CLOSE>>
        /\ \A i \in 1..Len(wrapped) : wrapped[i] # REST_OPEN

\* wrap_word returned for the word "a" at a ratio below 1
OneCharWordWitness ==
    /\ epc = "word"
    /\ text = <<"a">>
    /\ bold_ratio < RatioDen
    /\ Len(wrapped) = 3

WriteOnceStep ==
    /\ \A rid \in DOMAIN results :
          rid \in DOMAIN results' /\ results'[rid] = results[rid]
    /\ results' # results =>
          /\ cpc = "collect"
          /\ fi \notin DOMAIN results
          /\ DOMAIN results' = DOMAIN results \cup {fi}
          /\ fi' = fi + 1
    /\ \A rid \in DOMAIN future :
          future[rid] = "done" =>
              /\ rid \in DOMAIN fresult'
              /\ fresult'[rid] = fresult[rid]
    /\ cpc \in {"assemble", "returned"} =>
          /\ images_dict' = images_dict
          /\ results' = results

WriteOnce == [][WriteOnceStep]_vars

\* pdf_to_html returned after two images were stored and a block was built
WriteOnceWitness ==
    /\ cpc = "returned"
    /\ DOMAIN images_dict = {1, 2}
    /\ images_dict[1] # images_dict[2]
    /\ Len(body_content) = 2

\* C19: apply_bionic_reading called on the markup of a first call with the same
\* ratio returns that markup unchanged.
Idempotent ==
    epc = "reapplied" => soup = html_content

\* the blocks of the chunks, concatenated in ascending chunk index
RECURSIVE Flatten(_)
Flatten(cs) == IF cs = <<>> THEN <<>> ELSE Head(cs) \o Flatten(Tail(cs))

\* C20: the chunks pdf_to_html returns, concatenated in chunk order, are the
\* assembler's block sequence, which follows the document's paragraphs and
\* tables in their order; every chunk holds at most CHUNK_SIZE blocks and every
\* chunk but the last holds exactly CHUNK_SIZE.
PartitionExact ==
    cpc = "returned" =>
        /\ Flatten(chunks) = body_content
        /\ Len(body_content) = Len(body)
        /\ \A i \in 1..Len(body_content) :
              /\ body_content[i].src = i
              /\ body_content[i].tag = body[i].tag
        /\ \A c \in 1..Len(chunks) : Len(chunks[c]) <= CHUNK_SIZE
        /\ \A c \in 1..(Len(chunks) - 1) : Len(chunks[c]) = CHUNK_SIZE

\* paragraphs and tables were partitioned into two full chunks and a last
\* chunk of one block
PartitionExactWitness ==
    /\ cpc = "returned"
    /\ Len(chunks) = 3
    /\ Len(chunks[3]) = 1
    /\ \E i \in 1..Len(body_content) : body_content[i].tag = "tbl"
    /\ chunks[2][1].src = CHUNK_SIZE + 1

\* C13: when render_pdf returns or raises, the pool has been closed and joined
\* and no worker is still rendering a chunk.
PoolDrained ==
    pc = "exit" =>
        /\ pool = "joined"
        /\ Running = {}
        /\ \A i \in Chunks : task[i] = "done"

\* render_pdf raised from the merge loop after the first chunk was merged
PoolDrainedWitness ==
    /\ pc = "exit"
    /\ outcome = "raised"
    /\ mi > 1
    /\ pool = "joined"

\* C14: the process ends with a non-zero status when the input is missing or
\* pdf_to_html or render_pdf raised, and it logs success and ends with status 0
\* only when render_pdf returned with the merged document saved at the destination.
ExitStatus ==
    mpc = "exited" =>
        /\ exit_status \in {0, 1}
        /\ (~input_exists \/ cpc = "raised" \/ outcome = "raised") =>
              exit_status = 1 /\ ~success_logged
        /\ (exit_status = 0 \/ success_logged) =>
              /\ exit_status = 0 /\ success_logged
              /\ pc = "exit" /\ outcome = "ok"
              /\ dest = [kind |-> "complete", pages |-> IndexOrderPages(html_chunks)]
              /\ Len(dest.pages) >= html_chunks

\* the process ended with status 0 after saving a document of three chunks
ExitStatusWitness ==
    /\ mpc = "exited"
    /\ exit_status = 0
    /\ html_chunks = 3
    /\ Len(body_content) > 2 * CHUNK_SIZE
====
